---- MODULE Spec2Model ----
(***************************************************************************)
(* USBD480 USB display framebuffer driver (usbd480fb.c).                   *)
(*                                                                         *)
(* One USB interface, one session (struct usbd480).  Four threads of       *)
(* control touch it: usbd480_probe (attach), the single worker thread of   *)
(* the session's work queue running usbd480fb_work, a user process writing *)
(* the sysfs attribute "brightness" (set_brightness), and                  *)
(* usbd480_disconnect (detach).  Every blocking USB transfer is split into *)
(* the step that starts it and the step in which it completes, so that     *)
(* "a transfer is in progress" is a state.                                 *)
(*                                                                         *)
(* 32-bit quantities that may exceed 2^31 (vmemsize, device addresses) are *)
(* kept as two 16-bit halves [hi, lo]; these are also the wIndex/wValue    *)
(* halves the driver sends (addr>>16, addr).                               *)
(***************************************************************************)
EXTENDS Integers, Sequences, FiniteSets, TLC

\* ------------------------------------------------------------------ bounds
\* Completed refresh cycles are counted up to MaxCycles (the count saturates).
MaxCycles == 2

\* ----------------------------------------------------- program constants
PAGE_SHIFT == 12
PAGE_SIZE == 4096
MAX_ORDER == 11
BITS_PER_LONG == 64
ENOMEM == 12
EINVAL == 22

\* Values the device (or an unwritten response buffer) can yield for the
\* 16-bit width and height fields, and texts written to "brightness".
Dims == {0, 1, 272, 480, 46341}
Names == {"USBD480", "junk"}
BrightnessTexts == {<<"0">>, <<"2", "5", "5", "\n">>, <<"3", "0", "0", "\n">>}

\* The attribute files in the order usbd480_probe creates them.
AttrSeq == <<"brightness", "width", "height", "name">>

Half == 65536

\* ------------------------------------------------------- pure functions

\* dev->width*dev->height*2 as the mathematical value, in 16-bit halves
\* (hi may exceed 16 bits): what a frame of w x h 16-bit pixels needs.
FrameBytes(w, h) ==
    LET a == (w % 256) * h
        b == (w \div 256) * h
        lowsum == a + (b % 256) * 256
        lo1 == lowsum % Half
        hi1 == (b \div 256) + (lowsum \div Half)
    IN  [hi |-> 2 * hi1 + ((2 * lo1) \div Half), lo |-> (2 * lo1) % Half]

\* The same product evaluated in unsigned int (32-bit) arithmetic.
VmemSize(w, h) ==
    LET f == FrameBytes(w, h) IN [hi |-> f.hi % Half, lo |-> f.lo]

\* PAGE_ALIGN(size) / PAGE_SIZE for a size given in halves.
PageAlignPages(v) == v.hi * (Half \div PAGE_SIZE) + (v.lo + PAGE_SIZE - 1) \div PAGE_SIZE

\* get_order(): size = (size-1) >> (PAGE_SHIFT-1); order = -1;
\* do { size >>= 1; order++; } while (size);
RECURSIVE GetOrderLoop(_, _)
GetOrderLoop(size, order) ==
    LET s == size \div 2
        o == order + 1
    IN  IF s # 0 THEN GetOrderLoop(s, o) ELSE o

\* get_order(pages * PAGE_SIZE).  For size 0 the subtraction wraps to
\* ULONG_MAX and the loop yields BITS_PER_LONG - PAGE_SHIFT.
GetOrder(pages) ==
    IF pages = 0 THEN BITS_PER_LONG - PAGE_SHIFT
    ELSE GetOrderLoop(2 * pages - 1, -1)

\* USBD480_VIDEOMEMORDER
VideoMemOrder(v) == GetOrder(PageAlignPages(v))

RECURSIVE Pow2(_)
Pow2(n) == IF n = 0 THEN 1 ELSE 2 * Pow2(n - 1)

\* __get_free_pages can only be satisfied below MAX_ORDER.
OrderAllocatable(order) == order < MAX_ORDER

\* Bytes of the region __get_free_pages(order) returns.
RegionBytes(order) == PAGE_SIZE * Pow2(order)

\* The decimal digits, as sprintf("%d") writes and simple_strtoul reads them.
DigitChars == <<"0", "1", "2", "3", "4", "5", "6", "7", "8", "9">>

DigitVal(c) == CHOOSE k \in 0..9 : DigitChars[k + 1] = c

\* simple_strtoul(buf, NULL, 10): the value of the leading decimal digits;
\* conversion stops at the first other character.
RECURSIVE StrtoulFrom(_, _, _)
StrtoulFrom(t, i, acc) ==
    IF i > Len(t) \/ t[i] \notin {DigitChars[k] : k \in DOMAIN DigitChars}
    THEN acc
    ELSE StrtoulFrom(t, i + 1, acc * 10 + DigitVal(t[i]))

SimpleStrtoul(t) == StrtoulFrom(t, 1, 0)

\* The numbers the texts written to "brightness" stand for.
BrightnessInputs == {SimpleStrtoul(t) : t \in BrightnessTexts}

\* sprintf(buf, "%d\n", n) for n >= 0.
RECURSIVE Digits(_)
Digits(n) ==
    IF n < 10 THEN <<DigitChars[n + 1]>>
    ELSE Append(Digits(n \div 10), DigitChars[(n % 10) + 1])

SprintfD(n) == Append(Digits(n), "\n")

\* n >= the value of halves L, for n an ordinary integer below 2^31.
GeHalves(n, L) == L.hi < 32768 /\ n >= L.hi * Half + L.lo

\* ----------------------------------------------------------------- state
VARIABLES
    ppc,        \* usbd480_probe: position
    ai,         \* usbd480_probe: index into AttrSeq (creation / removal)
    retval,     \* usbd480_probe: retval
    failStep,   \* history: the step of usbd480_probe that failed, "" if none
    d,          \* struct usbd480: the fields of the session record
    intfdata,   \* usb_get_intfdata(interface) # NULL
    held,       \* resources currently held on behalf of the session
    acquired,   \* history: resources in order of acquisition
    released,   \* history: resources in order of release
    allocTried, \* history: __get_free_pages was called
    allocBytes, \* size of the region __get_free_pages returned (0: none)
    pending,    \* the delayed work is queued (timer armed or on the queue)
    cancelling, \* cancel_delayed_work_sync owns the work's pending bit
    wpc,        \* usbd480fb_work: position of the worker thread
    addr,       \* usbd480fb_work: writeaddr of the running cycle
    showaddr,   \* usbd480fb_work: showaddr of the running cycle
    xfers,      \* history: the requests the latest cycle has issued, in order
    lastAddr,   \* history: write address of the cycle completed last
    errs,       \* history: the transfers of the latest cycle that failed
    cycles,     \* history: completed cycles, saturating at MaxCycles
    refused,    \* history: a re-enqueue was refused by a cancel in progress
    result,     \* result of the most recently completed USB transfer
    spc,        \* set_brightness: position of the writing process
    wValue,     \* wValue of the last USBD480_SET_BRIGHTNESS request (-1: none)
    buf,        \* set_brightness: the text of the last write (<<>>: none)
    count,      \* set_brightness: value returned by the last write (-1: none
                \* yet, or the write has not returned)
    shown,      \* <<attribute, text>> of the last show since the last write
    dpc,        \* usbd480_disconnect: position
    di          \* usbd480_disconnect: index into AttrSeq (removal)

vars == <<ppc, ai, retval, failStep, d, intfdata, held, acquired, released,
          allocTried, allocBytes, pending, cancelling, wpc, addr, showaddr,
          xfers, lastAddr, errs, cycles, refused, result, spc, wValue, buf, count, shown, dpc, di>>

probeLocals == <<ppc, ai, retval, failStep>>
resVars == <<held, acquired, released>>
workLocals == <<addr, showaddr, xfers, lastAddr, errs>>
workVars == <<pending, cancelling, wpc, workLocals, cycles, refused>>
discVars == <<dpc, di>>
writerVars == <<spc, wValue, buf, count, shown>>

Zero32 == [hi |-> 0, lo |-> 0]

\* No address: before the first cycle has completed.
NoAddr == [hi |-> -1, lo |-> -1]

\* kzalloc(sizeof(struct usbd480)): every field zero.
ZeroDev ==
    [width |-> 0, height |-> 0, device_name |-> "", vmemsize |-> Zero32,
     disp_page |-> 0, brightness |-> 0, fbinfo |-> FALSE]

Init ==
    /\ ppc = "kzalloc"
    /\ ai = 1
    /\ retval = -ENOMEM
    /\ failStep = ""
    /\ d = ZeroDev
    /\ intfdata = FALSE
    /\ held = {}
    /\ acquired = <<>>
    /\ released = <<>>
    /\ allocTried = FALSE
    /\ allocBytes = 0
    /\ pending = FALSE
    /\ cancelling = FALSE
    /\ wpc = "idle"
    /\ addr = Zero32
    /\ showaddr = Zero32
    /\ xfers = <<>>
    /\ lastAddr = NoAddr
    /\ errs = {}
    /\ cycles = 0
    /\ refused = FALSE
    /\ result = "none"
    /\ spc = "idle"
    /\ wValue = -1
    /\ buf = <<>>
    /\ count = -1
    /\ shown = <<>>
    /\ dpc = "idle"
    /\ di = 1

\* ------------------------------------------------- acquiring / releasing
Acquire(r) ==
    /\ held' = held \cup {r}
    /\ acquired' = Append(acquired, r)
    /\ UNCHANGED released

Release(r) ==
    /\ held' = held \ {r}
    /\ released' = Append(released, r)
    /\ UNCHANGED acquired

\* Mutant of RemoveFile: the unwind leaves the attribute file registered.
RemoveFile_kept(a) == UNCHANGED resVars

\* device_remove_file: removing a file that does not exist does nothing.
RemoveFile(a) ==
    /\ held' = held \ {a}
    /\ released' = IF a \in held THEN Append(released, a) ELSE released
    /\ UNCHANGED acquired

\* sysfs lets an active show/store finish before the file goes away.
NoActiveAccess(a) == a = "brightness" => spc = "idle"

\* queue_delayed_work: fails while the work's pending bit is taken, which
\* includes a cancel_delayed_work_sync in progress.
QueueDelayedWork == pending \/ ~cancelling

\* ---------------------------------------------------------- usbd480_probe

\* dev = kzalloc(); usb_get_dev(); usb_set_intfdata()
Probe_kzalloc ==
    /\ ppc = "kzalloc"
    /\ \/ /\ d' = ZeroDev
          /\ held' = held \cup {"dev", "udev"}
          /\ acquired' = acquired \o <<"dev", "udev">>
          /\ intfdata' = TRUE
          /\ ppc' = "create"
          /\ UNCHANGED <<retval, failStep>>
       \/ /\ retval' = -ENOMEM
          /\ failStep' = "kzalloc"
          /\ ppc' = "error_dev"
          /\ UNCHANGED <<d, held, acquired, intfdata>>
    /\ UNCHANGED <<ai, released, allocTried, allocBytes, result>>
    /\ UNCHANGED <<workVars, writerVars, discVars>>

\* Mutant of Probe_create: the result of device_create_file is not checked
\* and attach goes on without the file.
Probe_create_unchecked ==
    /\ ppc = "create"
    /\ \E r \in {0, -ENOMEM} :
        /\ retval' = r
        /\ IF r = 0 THEN Acquire(AttrSeq[ai]) ELSE UNCHANGED resVars
    /\ IF ai < Len(AttrSeq)
       THEN ai' = ai + 1 /\ ppc' = ppc
       ELSE ai' = 1 /\ ppc' = "details"
    /\ UNCHANGED <<failStep, d, intfdata, allocTried, allocBytes, result>>
    /\ UNCHANGED <<workVars, writerVars, discVars>>

\* retval = device_create_file(...); if (retval) goto error_dev_attr;
Probe_create ==
    /\ ppc = "create"
    /\ \E r \in {0, -ENOMEM} :
        /\ retval' = r
        /\ IF r = 0
           THEN /\ Acquire(AttrSeq[ai])
                /\ IF ai < Len(AttrSeq)
                   THEN ai' = ai + 1 /\ ppc' = ppc
                   ELSE ai' = 1 /\ ppc' = "details"
                /\ UNCHANGED failStep
           ELSE /\ failStep' = AttrSeq[ai]
                /\ ai' = 1
                /\ ppc' = "error_dev_attr"
                /\ UNCHANGED resVars
    /\ UNCHANGED <<d, intfdata, allocTried, allocBytes, result>>
    /\ UNCHANGED <<workVars, writerVars, discVars>>

\* usbd480_get_device_details: kmalloc(64), then the control transfer starts.
\* Without the buffer the function returns with width and height untouched.
Probe_details ==
    /\ ppc = "details"
    /\ \/ ppc' = "details_xfer"
       \/ ppc' = "vmem"
    /\ UNCHANGED <<ai, retval, failStep, d, intfdata, allocTried, allocBytes, result>>
    /\ UNCHANGED <<resVars, workVars, writerVars, discVars>>

\* The transfer completes; its result is only logged.  width, height and
\* device_name are read from the buffer either way: the device's answer, or
\* whatever the never-written kmalloc buffer holds.
Probe_details_done ==
    /\ ppc = "details_xfer"
    /\ \E res \in {"ok", "err"}, w \in Dims, h \in Dims, n \in Names :
        /\ res = "ok" => n = "USBD480"
        /\ res = "err" => n = "junk"
        /\ result' = res
        /\ d' = [d EXCEPT !.width = w, !.height = h, !.device_name = n]
    /\ ppc' = "vmem"
    /\ UNCHANGED <<ai, retval, failStep, intfdata, allocTried, allocBytes>>
    /\ UNCHANGED <<resVars, workVars, writerVars, discVars>>

\* dev->vmemsize = dev->width*dev->height*2;
\* dev->vmem = __get_free_pages(GFP_KERNEL, USBD480_VIDEOMEMORDER)
Probe_vmem ==
    /\ ppc = "vmem"
    /\ LET size == VmemSize(d.width, d.height)
           order == VideoMemOrder(size)
       IN  /\ d' = [d EXCEPT !.vmemsize = size]
           /\ allocTried' = TRUE
           /\ \/ /\ OrderAllocatable(order)
                 /\ Acquire("vmem")
                 /\ allocBytes' = RegionBytes(order)
                 /\ ppc' = "fballoc"
                 /\ UNCHANGED <<retval, failStep>>
              \/ /\ retval' = -ENOMEM
                 /\ failStep' = "vmem"
                 /\ ppc' = "error_dev_attr"
                 /\ UNCHANGED <<resVars, allocBytes>>
    /\ UNCHANGED <<ai, intfdata, result>>
    /\ UNCHANGED <<workVars, writerVars, discVars>>

\* info = framebuffer_alloc(0, NULL); if (!info) goto error_fballoc;
\* (retval is not assigned on this path)
Probe_fballoc ==
    /\ ppc = "fballoc"
    /\ \/ /\ Acquire("info")
          /\ ppc' = "palette"
          /\ UNCHANGED failStep
       \/ /\ failStep' = "fballoc"
          /\ ppc' = "error_fballoc"
          /\ UNCHANGED resVars
    /\ UNCHANGED <<ai, retval, d, intfdata, allocTried, allocBytes, result>>
    /\ UNCHANGED <<workVars, writerVars, discVars>>

\* info->pseudo_palette = kzalloc(sizeof(u32)*16, GFP_KERNEL)
Probe_palette ==
    /\ ppc = "palette"
    /\ \/ /\ Acquire("pseudo_palette")
          /\ ppc' = "cmap"
          /\ UNCHANGED <<retval, failStep>>
       \/ /\ retval' = -ENOMEM
          /\ failStep' = "palette"
          /\ ppc' = "error_fbpseudopal"
          /\ UNCHANGED resVars
    /\ UNCHANGED <<ai, d, intfdata, allocTried, allocBytes, result>>
    /\ UNCHANGED <<workVars, writerVars, discVars>>

\* retval = fb_alloc_cmap(&info->cmap, 256, 0)
Probe_cmap ==
    /\ ppc = "cmap"
    /\ \/ /\ Acquire("cmap")
          /\ retval' = 0
          /\ ppc' = "register"
          /\ UNCHANGED failStep
       \/ /\ retval' = -ENOMEM
          /\ failStep' = "cmap"
          /\ ppc' = "error_fballoccmap"
          /\ UNCHANGED resVars
    /\ UNCHANGED <<ai, d, intfdata, allocTried, allocBytes, result>>
    /\ UNCHANGED <<workVars, writerVars, discVars>>

\* retval = register_framebuffer(info); dev->fbinfo = info; dev->disp_page = 0;
Probe_register ==
    /\ ppc = "register"
    /\ \/ /\ Acquire("fb")
          /\ retval' = 0
          /\ d' = [d EXCEPT !.fbinfo = TRUE, !.disp_page = 0]
          /\ ppc' = "wq"
          /\ UNCHANGED failStep
       \/ /\ retval' = -EINVAL
          /\ failStep' = "register"
          /\ ppc' = "error_fbreg"
          /\ UNCHANGED <<resVars, d>>
    /\ UNCHANGED <<ai, intfdata, allocTried, allocBytes, result>>
    /\ UNCHANGED <<workVars, writerVars, discVars>>

\* dev->wq = create_singlethread_workqueue("usbd480fb")
Probe_wq ==
    /\ ppc = "wq"
    /\ \/ /\ Acquire("wq")
          /\ ppc' = "queue"
          /\ UNCHANGED <<retval, failStep>>
       \/ /\ retval' = -ENOMEM
          /\ failStep' = "wq"
          /\ ppc' = "error_wq"
          /\ UNCHANGED resVars
    /\ UNCHANGED <<ai, d, intfdata, allocTried, allocBytes, result>>
    /\ UNCHANGED <<workVars, writerVars, discVars>>

\* INIT_DELAYED_WORK; queue_delayed_work(..., USBD480_REFRESH_JIFFIES*4); return 0;
Probe_queue ==
    /\ ppc = "queue"
    /\ pending' = QueueDelayedWork
    /\ retval' = 0
    /\ ppc' = "return"
    /\ UNCHANGED <<ai, failStep, d, intfdata, allocTried, allocBytes, result>>
    /\ UNCHANGED <<cancelling, wpc, workLocals, cycles, refused>>
    /\ UNCHANGED <<resVars, writerVars, discVars>>

\* error_wq: unregister_framebuffer(info);
Probe_error_wq ==
    /\ ppc = "error_wq"
    /\ Release("fb")
    /\ ppc' = "error_fbreg"
    /\ UNCHANGED <<ai, retval, failStep, d, intfdata, allocTried, allocBytes, result>>
    /\ UNCHANGED <<workVars, writerVars, discVars>>

\* error_fbreg: fb_dealloc_cmap(&info->cmap);
Probe_error_fbreg ==
    /\ ppc = "error_fbreg"
    /\ Release("cmap")
    /\ ppc' = "error_fballoccmap"
    /\ UNCHANGED <<ai, retval, failStep, d, intfdata, allocTried, allocBytes, result>>
    /\ UNCHANGED <<workVars, writerVars, discVars>>

\* error_fballoccmap: if (info->pseudo_palette) kfree(info->pseudo_palette);
Probe_error_fballoccmap ==
    /\ ppc = "error_fballoccmap"
    /\ IF "pseudo_palette" \in held
       THEN Release("pseudo_palette")
       ELSE UNCHANGED resVars
    /\ ppc' = "error_fbpseudopal"
    /\ UNCHANGED <<ai, retval, failStep, d, intfdata, allocTried, allocBytes, result>>
    /\ UNCHANGED <<workVars, writerVars, discVars>>

\* error_fbpseudopal: framebuffer_release(info);
Probe_error_fbpseudopal ==
    /\ ppc = "error_fbpseudopal"
    /\ Release("info")
    /\ ppc' = "error_fballoc"
    /\ UNCHANGED <<ai, retval, failStep, d, intfdata, allocTried, allocBytes, result>>
    /\ UNCHANGED <<workVars, writerVars, discVars>>

\* error_fballoc: ClearPageReserved...; free_pages(dev->vmem, ...);
Probe_error_fballoc ==
    /\ ppc = "error_fballoc"
    /\ Release("vmem")
    /\ ppc' = "error_dev_attr"
    /\ UNCHANGED <<ai, retval, failStep, d, intfdata, allocTried, allocBytes, result>>
    /\ UNCHANGED <<workVars, writerVars, discVars>>

\* error_vmem: error_dev_attr: device_remove_file(...) for all four files.
Probe_error_dev_attr ==
    /\ ppc = "error_dev_attr"
    /\ NoActiveAccess(AttrSeq[ai])
    /\ RemoveFile(AttrSeq[ai])
    /\ IF ai < Len(AttrSeq)
       THEN ai' = ai + 1 /\ ppc' = ppc
       ELSE ai' = 1 /\ ppc' = "error_dev"
    /\ UNCHANGED <<retval, failStep, d, intfdata, allocTried, allocBytes, result>>
    /\ UNCHANGED <<workVars, writerVars, discVars>>

\* error_dev: usb_set_intfdata(interface, NULL); if (dev) kfree(dev);
\* return retval;
Probe_error_dev ==
    /\ ppc = "error_dev"
    /\ intfdata' = FALSE
    /\ IF "dev" \in held
       THEN Release("dev")
       ELSE UNCHANGED resVars
    /\ ppc' = "return"
    /\ UNCHANGED <<ai, retval, failStep, d, allocTried, allocBytes, result>>
    /\ UNCHANGED <<workVars, writerVars, discVars>>

\* --------------------------------------------------------- usbd480fb_work

Min(a, b) == IF a < b THEN a ELSE b

\* Mutant of NextPage: the else branch also stores 1.
NextPage_stuck(p) == 1

\* if(d->disp_page == 0) d->disp_page = 1; else d->disp_page = 0;
NextPage(p) == IF p = 0 THEN 1 ELSE 0

\* Mutant of PageAddr: the address is taken from the page value after the
\* toggle.
PageAddr_toggled(p, size) == IF NextPage(p) = 0 THEN Zero32 ELSE size

\* writeaddr = (d->disp_page == 0) ? 0 : d->vmemsize, on the page value
\* found at entry.
PageAddr(p, size) == IF p = 0 THEN Zero32 ELSE size

\* Mutant of ShowAddr: the page not being written is shown.
ShowAddr_other(p, size) == IF p = 0 THEN size ELSE Zero32

\* showaddr = (d->disp_page == 0) ? 0 : d->vmemsize, from the same branch
\* as writeaddr.
ShowAddr(p, size) == IF p = 0 THEN Zero32 ELSE size

\* The length usb_bulk_msg is given.
BulkLength == d.vmemsize

\* A request to the device: a control request with the address in
\* wIndex/wValue, a bulk transfer with its length, or the re-enqueue.
Request(op, arg) == [op |-> op, arg |-> arg]

\* The failed transfers of the running cycle after transfer op ended in res.
Failed(op, res) == IF res = "err" THEN errs \cup {op} ELSE errs

\* The work queue has a single worker thread: it takes the work when the
\* delay has expired and it is not running anything.
WorkerFree == wpc = "idle"

\* Mutant of RequeueStep: the work re-enqueues itself before its transfers.
RequeueStep_first == "toggle"

\* The step of usbd480fb_work that calls queue_delayed_work.
RequeueStep == "queue"

\* pending after the step at position at of usbd480fb_work.
PendingAfter(at) == IF at = RequeueStep THEN QueueDelayedWork ELSE pending

\* The delay expires and the worker thread starts usbd480fb_work.
Work_run ==
    /\ pending
    /\ WorkerFree
    /\ pending' = FALSE
    /\ wpc' = "toggle"
    /\ UNCHANGED <<cancelling, workLocals, cycles, refused>>
    /\ UNCHANGED <<probeLocals, d, intfdata, allocTried, allocBytes, result>>
    /\ UNCHANGED <<resVars, writerVars, discVars>>

\* The page toggle, then usbd480_set_address(d, writeaddr) starts.
Work_toggle ==
    /\ wpc = "toggle"
    /\ addr' = PageAddr(d.disp_page, d.vmemsize)
    /\ showaddr' = ShowAddr(d.disp_page, d.vmemsize)
    /\ d' = [d EXCEPT !.disp_page = NextPage(d.disp_page)]
    /\ xfers' = <<Request("set_address", addr')>>
    /\ errs' = {}
    /\ pending' = PendingAfter("toggle")
    /\ wpc' = "set_address"
    /\ UNCHANGED <<cancelling, lastAddr, cycles, refused>>
    /\ UNCHANGED <<probeLocals, intfdata, allocTried, allocBytes, result>>
    /\ UNCHANGED <<resVars, writerVars, discVars>>

\* usbd480_set_address returns (result only logged); usb_bulk_msg starts.
Work_set_address_done ==
    /\ wpc = "set_address"
    /\ \E res \in {"ok", "err"} :
        result' = res /\ errs' = Failed("set_address", res)
    /\ xfers' = Append(xfers, Request("bulk", BulkLength))
    /\ pending' = PendingAfter("set_address")
    /\ wpc' = "bulk"
    /\ UNCHANGED <<cancelling, addr, showaddr, lastAddr, cycles, refused>>
    /\ UNCHANGED <<probeLocals, d, intfdata, allocTried, allocBytes>>
    /\ UNCHANGED <<resVars, writerVars, discVars>>

\* usb_bulk_msg returns (result ignored); usbd480_set_frame_start_address starts.
Work_bulk_done ==
    /\ wpc = "bulk"
    /\ \E res \in {"ok", "err"} :
        result' = res /\ errs' = Failed("bulk", res)
    /\ xfers' = Append(xfers, Request("set_frame_start", showaddr))
    /\ pending' = PendingAfter("bulk")
    /\ wpc' = "set_frame_start"
    /\ UNCHANGED <<cancelling, addr, showaddr, lastAddr, cycles, refused>>
    /\ UNCHANGED <<probeLocals, d, intfdata, allocTried, allocBytes>>
    /\ UNCHANGED <<resVars, writerVars, discVars>>

\* usbd480_set_frame_start_address returns (result only logged).
Work_set_frame_start_done ==
    /\ wpc = "set_frame_start"
    /\ \E res \in {"ok", "err"} :
        result' = res /\ errs' = Failed("set_frame_start", res)
    /\ pending' = PendingAfter("set_frame_start")
    /\ wpc' = "queue"
    /\ UNCHANGED <<cancelling, addr, showaddr, xfers, lastAddr, cycles, refused>>
    /\ UNCHANGED <<probeLocals, d, intfdata, allocTried, allocBytes>>
    /\ UNCHANGED <<resVars, writerVars, discVars>>

\* Mutant of Work_queue: the next cycle is queued only after a cycle
\* without a failed transfer.
Work_queue_on_success ==
    /\ wpc = "queue"
    /\ pending' = (errs = {} /\ PendingAfter("queue"))
    /\ refused' = (refused \/ ~QueueDelayedWork)
    /\ cycles' = Min(cycles + 1, MaxCycles)
    /\ xfers' = Append(xfers, Request("queue_delayed_work", Zero32))
    /\ lastAddr' = addr
    /\ wpc' = "idle"
    /\ UNCHANGED <<cancelling, addr, showaddr, errs>>
    /\ UNCHANGED <<probeLocals, d, intfdata, allocTried, allocBytes, result>>
    /\ UNCHANGED <<resVars, writerVars, discVars>>

\* queue_delayed_work(d->wq, &d->work, USBD480_REFRESH_JIFFIES); return.
Work_queue ==
    /\ wpc = "queue"
    /\ pending' = PendingAfter("queue")
    /\ refused' = (refused \/ ~QueueDelayedWork)
    /\ cycles' = Min(cycles + 1, MaxCycles)
    /\ xfers' = Append(xfers, Request("queue_delayed_work", Zero32))
    /\ lastAddr' = addr
    /\ wpc' = "idle"
    /\ UNCHANGED <<cancelling, addr, showaddr, errs>>
    /\ UNCHANGED <<probeLocals, d, intfdata, allocTried, allocBytes, result>>
    /\ UNCHANGED <<resVars, writerVars, discVars>>

\* --------------------------------------------------------- set_brightness

\* Mutant of StoredBrightness: the value is clamped to the field's range.
StoredBrightness_clamped(v) == IF v > 255 THEN 255 ELSE v

\* d->brightness is an unsigned char.
StoredBrightness(v) == v % 256

\* usb_control_msg takes the request value as a 16-bit wValue.
SentBrightness(v) == v % Half

\* brightness = simple_strtoul(buf); d->brightness = brightness;
\* usbd480_set_brightness(d, brightness) starts its control transfer.
Store_brightness ==
    /\ "brightness" \in held
    /\ spc = "idle"
    /\ \E t \in BrightnessTexts :
        LET v == SimpleStrtoul(t)
        IN  /\ buf' = t
            /\ d' = [d EXCEPT !.brightness = StoredBrightness(v)]
            /\ wValue' = SentBrightness(v)
    /\ count' = -1
    /\ shown' = <<>>
    /\ spc' = "ctrl"
    /\ UNCHANGED <<probeLocals, intfdata, allocTried, allocBytes, result>>
    /\ UNCHANGED <<resVars, workVars, discVars>>

\* Mutant of Store_brightness_done: a failed transfer is reported to the
\* writer instead of count.
Store_brightness_done_reported ==
    /\ spc = "ctrl"
    /\ \E res \in {"ok", "err"} :
        /\ result' = res
        /\ count' = IF res = "err" THEN -EINVAL ELSE Len(buf)
    /\ spc' = "idle"
    /\ UNCHANGED <<probeLocals, d, intfdata, allocTried, allocBytes, wValue, buf, shown>>
    /\ UNCHANGED <<resVars, workVars, discVars>>

\* The transfer completes (result only logged); return count.
Store_brightness_done ==
    /\ spc = "ctrl"
    /\ \E res \in {"ok", "err"} : result' = res
    /\ count' = Len(buf)
    /\ spc' = "idle"
    /\ UNCHANGED <<probeLocals, d, intfdata, allocTried, allocBytes, wValue, buf, shown>>
    /\ UNCHANGED <<resVars, workVars, discVars>>

\* -------------------------------------------------------- show_brightness

\* The text a read of attribute a returns.
ShowText(a) ==
    IF a = "brightness" THEN SprintfD(d.brightness)
    ELSE IF a = "width" THEN SprintfD(d.width)
    ELSE IF a = "height" THEN SprintfD(d.height)
    ELSE <<d.device_name, "\n">>

\* show_brightness: a process reads the attribute file "brightness".
Show_brightness ==
    /\ "brightness" \in held
    /\ shown' = <<"brightness", ShowText("brightness")>>
    /\ UNCHANGED <<probeLocals, d, intfdata, allocTried, allocBytes, result>>
    /\ UNCHANGED <<spc, wValue, buf, count>>
    /\ UNCHANGED <<resVars, workVars, discVars>>

\* ----------------------------------------------------- usbd480_disconnect

\* The USB core calls disconnect on an interface whose probe returned 0.
Bound == ppc = "return" /\ retval = 0

\* Mutant of CancelSyncDone: cancel_delayed_work, which does not wait.
CancelSyncDone_nowait == TRUE

\* cancel_delayed_work_sync returns once the work is neither queued nor
\* running.
CancelSyncDone == wpc = "idle"

\* dev = usb_get_intfdata(); cancel_delayed_work_sync(&dev->work) takes the
\* pending bit, removing a queued instance.
Disconnect_cancel ==
    /\ dpc = "idle"
    /\ Bound
    /\ intfdata
    /\ cancelling' = TRUE
    /\ pending' = FALSE
    /\ dpc' = "cancel_wait"
    /\ UNCHANGED <<wpc, workLocals, cycles, refused, di>>
    /\ UNCHANGED <<probeLocals, d, intfdata, allocTried, allocBytes, result>>
    /\ UNCHANGED <<resVars, writerVars>>

\* usb_get_intfdata() is NULL and &dev->work is dereferenced.
Disconnect_null ==
    /\ dpc = "idle"
    /\ Bound
    /\ ~intfdata
    /\ dpc' = "oops"
    /\ UNCHANGED <<di, probeLocals, d, intfdata, allocTried, allocBytes, result>>
    /\ UNCHANGED <<resVars, workVars, writerVars>>

\* cancel_delayed_work_sync returns.
Disconnect_cancel_wait ==
    /\ dpc = "cancel_wait"
    /\ CancelSyncDone
    /\ cancelling' = FALSE
    /\ dpc' = "flush"
    /\ UNCHANGED <<pending, wpc, workLocals, cycles, refused, di>>
    /\ UNCHANGED <<probeLocals, d, intfdata, allocTried, allocBytes, result>>
    /\ UNCHANGED <<resVars, writerVars>>

\* flush_workqueue(dev->wq): waits for work the worker thread is running.
Disconnect_flush ==
    /\ dpc = "flush"
    /\ wpc = "idle"
    /\ dpc' = "destroy"
    /\ UNCHANGED <<di, probeLocals, d, intfdata, allocTried, allocBytes, result>>
    /\ UNCHANGED <<resVars, workVars, writerVars>>

\* destroy_workqueue(dev->wq)
Disconnect_destroy ==
    /\ dpc = "destroy"
    /\ wpc = "idle"
    /\ Release("wq")
    /\ dpc' = "remove"
    /\ di' = 1
    /\ UNCHANGED <<probeLocals, d, intfdata, allocTried, allocBytes, result>>
    /\ UNCHANGED <<workVars, writerVars>>

\* device_remove_file(...) for the four files.
Disconnect_remove ==
    /\ dpc = "remove"
    /\ NoActiveAccess(AttrSeq[di])
    /\ RemoveFile(AttrSeq[di])
    /\ IF di < Len(AttrSeq)
       THEN di' = di + 1 /\ dpc' = dpc
       ELSE di' = 1 /\ dpc' = "unregister"
    /\ UNCHANGED <<probeLocals, d, intfdata, allocTried, allocBytes, result>>
    /\ UNCHANGED <<workVars, writerVars>>

\* info = dev->fbinfo; if (info) { unregister_framebuffer(info); ...
Disconnect_unregister ==
    /\ dpc = "unregister"
    /\ IF d.fbinfo
       THEN Release("fb") /\ dpc' = "fb_release"
       ELSE UNCHANGED resVars /\ dpc' = "put"
    /\ UNCHANGED <<di, probeLocals, d, intfdata, allocTried, allocBytes, result>>
    /\ UNCHANGED <<workVars, writerVars>>

\* framebuffer_release(info);
Disconnect_fb_release ==
    /\ dpc = "fb_release"
    /\ Release("info")
    /\ dpc' = "free_pages"
    /\ UNCHANGED <<di, probeLocals, d, intfdata, allocTried, allocBytes, result>>
    /\ UNCHANGED <<workVars, writerVars>>

\* ClearPageReserved...; free_pages(dev->vmem, USBD480_VIDEOMEMORDER); }
Disconnect_free_pages ==
    /\ dpc = "free_pages"
    /\ Release("vmem")
    /\ dpc' = "put"
    /\ UNCHANGED <<di, probeLocals, d, intfdata, allocTried, allocBytes, result>>
    /\ UNCHANGED <<workVars, writerVars>>

\* usb_set_intfdata(interface, NULL); usb_put_dev(dev->udev); kfree(dev);
Disconnect_put ==
    /\ dpc = "put"
    /\ intfdata' = FALSE
    /\ held' = held \ {"udev", "dev"}
    /\ released' = released \o <<"udev", "dev">>
    /\ dpc' = "done"
    /\ UNCHANGED <<acquired, di, probeLocals, d, allocTried, allocBytes, result>>
    /\ UNCHANGED <<workVars, writerVars>>

\* ---------------------------------------------------------- specification
Next ==
    \/ Probe_kzalloc
    \/ Probe_create
    \/ Probe_details
    \/ Probe_details_done
    \/ Probe_vmem
    \/ Probe_fballoc
    \/ Probe_palette
    \/ Probe_cmap
    \/ Probe_register
    \/ Probe_wq
    \/ Probe_queue
    \/ Probe_error_wq
    \/ Probe_error_fbreg
    \/ Probe_error_fballoccmap
    \/ Probe_error_fbpseudopal
    \/ Probe_error_fballoc
    \/ Probe_error_dev_attr
    \/ Probe_error_dev
    \/ Work_run
    \/ Work_toggle
    \/ Work_set_address_done
    \/ Work_bulk_done
    \/ Work_set_frame_start_done
    \/ Work_queue
    \/ Store_brightness
    \/ Store_brightness_done
    \/ Show_brightness
    \/ Disconnect_cancel
    \/ Disconnect_null
    \/ Disconnect_cancel_wait
    \/ Disconnect_flush
    \/ Disconnect_destroy
    \/ Disconnect_remove
    \/ Disconnect_unregister
    \/ Disconnect_fb_release
    \/ Disconnect_free_pages
    \/ Disconnect_put

Spec == Init /\ [][Next]_vars

\* A step of the worker thread: the delay expires, a transfer completes or
\* times out (1000 ms, 5000 ms), the work function goes on.
WorkStep ==
    \/ Work_run
    \/ Work_toggle
    \/ Work_set_address_done
    \/ Work_bulk_done
    \/ Work_set_frame_start_done
    \/ Work_queue

\* The kernel runs the worker thread and bounds every wait of the work.
FairSpec == Spec /\ WF_vars(WorkStep)

\* ------------------------------------------------------------ properties

AttrSet == {AttrSeq[i] : i \in DOMAIN AttrSeq}

Range(seq) == {seq[i] : i \in DOMAIN seq}

Count(seq, r) == Cardinality({i \in DOMAIN seq : seq[i] = r})

Pos(seq, r) == CHOOSE i \in DOMAIN seq : seq[i] = r

\* The unwind classes of section 3 of the specification.
Class(r) ==
    IF r \in AttrSet THEN "attribute exposure"
    ELSE IF r \in {"info", "pseudo_palette", "cmap", "fb"} THEN "registration"
    ELSE IF r = "vmem" THEN "memory"
    ELSE IF r = "wq" THEN "scheduler"
    ELSE IF r = "udev" THEN "device handle"
    ELSE "session"

\* The USB transfers of the session that have started and not completed.
TransfersInProgress ==
    (IF ppc = "details_xfer" THEN {"getDeviceDetails"} ELSE {})
    \cup (IF wpc = "set_address" THEN {"setWriteAddress"} ELSE {})
    \cup (IF wpc = "bulk" THEN {"bulk"} ELSE {})
    \cup (IF wpc = "set_frame_start" THEN {"setShowAddress"} ELSE {})
    \cup (IF spc = "ctrl" THEN {"setBrightness"} ELSE {})

ProbeFailed == ppc = "return" /\ failStep # ""

\* C1: once frame memory is freed, the device handle is put, the session
\* record is freed or detach has returned, the refresh work is neither
\* queued nor running, so no step of any cycle can follow.
C1_NoCycleAfterRelease ==
    ("vmem" \in Range(released) \/ "udev" \in Range(released)
        \/ "dev" \in Range(released) \/ dpc = "done")
    => (wpc = "idle" /\ ~pending)

\* C1 witness: detach has returned after a cycle that was in flight during
\* the cancel tried to re-enqueue itself.
C1_Witness == dpc = "done" /\ refused /\ "vmem" \in Range(released)

\* C2 (as claimed): at most one USB transfer of the session is in progress.
C2_OneTransferAtATime == Cardinality(TransfersInProgress) <= 1

\* C3: refresh cycles are serialized: while the next cycle is queued no
\* cycle is running, i.e. the next cycle is enqueued only when every step of
\* the current one is over.
C3_CyclesSerialized == pending => wpc = "idle"

\* C3 witness: a later cycle is in its bulk transfer after earlier cycles
\* have completed.
C3_Witness == cycles = MaxCycles /\ wpc = "bulk" /\ ~pending

\* C4 (as claimed): a failed attach returns a non-zero code; attach returns
\* 0 only with the session running and every resource held.
C4_FailureReported ==
    /\ ProbeFailed => retval # 0
    /\ (ppc = "return" /\ retval = 0 /\ dpc = "idle")
        => (failStep = "" /\ intfdata /\ held = Range(acquired)
            /\ AttrSet \cup {"vmem", "fb", "wq"} \subseteq held)

\* C5: after a failure at the frame-memory allocation no attribute file and
\* no framebuffer is registered, no work is queued or running, and the
\* interface's session pointer is NULL.
C5_VmemFailureUnwound ==
    (ProbeFailed /\ failStep = "vmem")
    => /\ held \cap AttrSet = {}
       /\ "fb" \notin held
       /\ ~pending /\ wpc = "idle"
       /\ ~intfdata

\* C5 witness: attach has returned after the frame-memory allocation failed
\* with all four attribute files created before it.
C5_Witness ==
    ProbeFailed /\ failStep = "vmem" /\ AttrSet \subseteq Range(acquired)

\* C6 (as claimed): after a failed attach every resource acquired was
\* released exactly once, nothing else was released, nothing is left held,
\* and resources of different classes were released in reverse order of
\* acquisition.
C6_UnwindExactLIFO ==
    ProbeFailed =>
        /\ held = {}
        /\ Range(released) = Range(acquired)
        /\ \A r \in Range(acquired) : Count(released, r) = 1
        /\ \A r1, r2 \in Range(acquired) :
            (Pos(acquired, r1) < Pos(acquired, r2) /\ Class(r1) # Class(r2))
            => Pos(released, r2) < Pos(released, r1)

\* C7 (as claimed): after a successful attach, any number of cycles and
\* detach, frame memory was freed once, each attribute file was removed
\* once, and nothing of the session remains held, queued or running.
C7_NoLeakAfterDetach ==
    dpc = "done" =>
        /\ Count(released, "vmem") = 1
        /\ \A a \in AttrSet : Count(released, a) = 1
        /\ held = {}
        /\ ~pending /\ wpc = "idle"

\* C8: disp_page is always 0 or 1; the toggle step of a refresh cycle
\* changes it to the other value and no other step changes it.
C8_PageAlternates ==
    /\ [](d.disp_page \in {0, 1})
    /\ [][IF wpc = "toggle" /\ wpc' = "set_address"
          THEN d'.disp_page = 1 - d.disp_page
          ELSE d'.disp_page = d.disp_page]_vars

\* C8 witness: two cycles have completed and disp_page is back at 0.
C8_Witness == cycles >= 2 /\ wpc = "idle" /\ d.disp_page = 0

\* C9 (as claimed): for width and height both > 0, vmemsize is
\* width*height*2 and the region allocated holds at least that many bytes.
C9_RegionHoldsFrame ==
    (allocTried /\ d.width > 0 /\ d.height > 0)
    => /\ d.vmemsize = FrameBytes(d.width, d.height)
       /\ "vmem" \in Range(acquired)
            => GeHalves(allocBytes, FrameBytes(d.width, d.height))

\* C11: after a write of text t to "brightness" the cached brightness is
\* simple_strtoul(t) modulo 256, whatever the result of the transfer: within
\* 0..255, 44 for "300", and a read made after the write returns its text.
C11_BrightnessDeterministic ==
    buf # <<>> =>
        /\ d.brightness = SimpleStrtoul(buf) % 256
        /\ d.brightness \in 0..255
        /\ SimpleStrtoul(buf) = 300 => d.brightness = 44
        /\ (shown # <<>> /\ shown[1] = "brightness")
            => SimpleStrtoul(shown[2]) = d.brightness

\* C11 witness: "300" was written before any other transfer of the session,
\* its transfer failed, 44 is cached and a read returned "44".
C11_Witness ==
    /\ ppc = "create" /\ spc = "idle" /\ result = "err"
    /\ buf = <<"3", "0", "0", "\n">>
    /\ d.brightness = 44
    /\ shown = <<"brightness", <<"4", "4", "\n">>>>

\* The positions of usbd480fb_work after the toggle.
InCycle == {"set_address", "bulk", "set_frame_start", "queue"}

\* C12 (as claimed): the write address of a cycle is 0 when disp_page after
\* the cycle's toggle is 0, and vmemsize when it is 1.
C12_OffsetFromToggledPage ==
    wpc \in InCycle => addr = (IF d.disp_page = 0 THEN Zero32 ELSE d.vmemsize)

\* C12 (amended): the write address of a cycle is computed from disp_page
\* as it was before the toggle: 0 when disp_page after the toggle is 1,
\* vmemsize when it is 0; the first cycle after attach targets 0.
C12_OffsetFromPageAtEntry ==
    wpc \in InCycle =>
        /\ addr = (IF d.disp_page = 1 THEN Zero32 ELSE d.vmemsize)
        /\ lastAddr = NoAddr => addr = Zero32

\* C12 witness: the second cycle is running with disp_page toggled back to
\* 0 and write address vmemsize, after a first cycle that wrote to 0.
C12_Witness ==
    /\ wpc = "bulk" /\ d.disp_page = 0
    /\ addr = d.vmemsize /\ addr # Zero32 /\ lastAddr = Zero32

\* The requests of one cycle with address t, in order.
CycleRequests(t) ==
    <<Request("set_address", t), Request("bulk", d.vmemsize),
      Request("set_frame_start", t), Request("queue_delayed_work", Zero32)>>

\* How many requests a cycle has issued at position at.
Issued(at) ==
    CASE at = "set_address" -> 1
      [] at = "bulk" -> 2
      [] at \in {"set_frame_start", "queue"} -> 3
      [] OTHER -> 4

\* C13: a cycle issues setWriteAddress(t), a bulk transfer of vmemsize
\* bytes, setShowAddress(t) and the re-enqueue, in this order and once
\* each, with t either 0 or vmemsize and different from the address of the
\* cycle before.
C13_CycleOrder ==
    xfers # <<>> =>
        LET t == xfers[1].arg
        IN  /\ t \in {Zero32, d.vmemsize}
            /\ xfers = SubSeq(CycleRequests(t), 1, Issued(wpc))
            /\ wpc \in InCycle => (t = addr /\ t # lastAddr)

\* C13 witness: a second cycle has issued its three transfers to address
\* vmemsize, with a bulk length (261120) below the region's size (262144).
C13_Witness ==
    /\ wpc = "queue" /\ Len(xfers) = 3
    /\ lastAddr = Zero32 /\ addr = d.vmemsize
    /\ d.width = 480 /\ d.height = 272
    /\ xfers[2].arg = [hi |-> 3, lo |-> 64512] /\ allocBytes = 262144

\* The transfers of a refresh cycle.
CycleTransfers == {"set_address", "bulk", "set_frame_start"}

\* C14: whatever transfers of a cycle failed, the work function goes on to
\* its re-enqueue, the re-enqueue queues the next cycle unless detach is
\* cancelling the work, no transfer step changes the session record, and
\* while detach is not requested a further cycle begins.
C14_ErrorsDoNotStopCycle ==
    /\ [][(wpc = "queue" /\ wpc' = "idle" /\ ~cancelling) => pending']_vars
    /\ [][(wpc \in CycleTransfers /\ wpc' # wpc) => d' = d]_vars
    /\ (wpc \in InCycle /\ errs \in SUBSET CycleTransfers /\ dpc = "idle")
            ~> (wpc = "toggle" \/ dpc # "idle")

\* C14 witness: a further cycle has begun after a cycle in which all three
\* transfers failed, detach not requested.
C14_Witness ==
    wpc = "toggle" /\ errs = CycleTransfers /\ cycles >= 1 /\ dpc = "idle"

\* C15 (as claimed): a getDeviceDetails transfer that fails leaves width
\* and height as they were.
C15_FailedDiscoveryKeepsDims ==
    [][(ppc = "details_xfer" /\ ppc' = "vmem" /\ result' = "err")
        => (d'.width = d.width /\ d'.height = d.height)]_vars

\* The positions of usbd480_probe from discovery to the start of the work.
AfterCreate ==
    {"details", "details_xfer", "vmem", "fballoc", "palette", "cmap",
     "register", "wq", "queue"}

\* C16 (as claimed): an attribute file exists only once frame memory is
\* allocated and the framebuffer is registered, and no brightness transfer
\* runs while attach has not returned.
C16_AttributesOnlyWhenRegistered ==
    /\ held \cap AttrSet # {} => {"vmem", "fb"} \subseteq Range(acquired)
    /\ spc = "ctrl" => ppc = "return"

\* C16 (amended): the four attribute files are created first, right after
\* the session record: they exist throughout discovery, allocation and
\* registration, every later resource is acquired after them, and only the
\* work is queued after the registration.
C16_AttributesExposedFirst ==
    /\ ppc \in AfterCreate => AttrSet \subseteq held
    /\ \A r \in Range(acquired) \ ({"dev", "udev"} \cup AttrSet) :
        \A a \in AttrSet :
            a \in Range(acquired) /\ Pos(acquired, a) < Pos(acquired, r)
    /\ pending => {"fb", "wq"} \subseteq held

\* C16 witness: during discovery, with width and height still zero, a
\* brightness write has its control transfer in progress.
C16_Witness ==
    /\ ppc = "details_xfer" /\ spc = "ctrl"
    /\ d.width = 0 /\ d.height = 0 /\ "vmem" \notin Range(acquired)

\* C17: once a brightness write has returned, it returned the length of
\* its input, the parsed value was sent and is cached (in the width of the
\* field), whatever the result of the transfer; and the steps of the write
\* change no other field of the session and no resource.
C17_WriteEffect ==
    /\ []((buf # <<>> /\ spc = "idle") =>
            /\ count = Len(buf)
            /\ wValue = SimpleStrtoul(buf)
            /\ d.brightness = wValue % 256)
    /\ [][spc' # spc =>
            /\ [d' EXCEPT !.brightness = 0] = [d EXCEPT !.brightness = 0]
            /\ held' = held /\ allocBytes' = allocBytes
            /\ intfdata' = intfdata]_vars

\* C17 witness: a write of "255" returned 4 after its transfer failed, and
\* 255 is cached.
C17_Witness ==
    /\ ppc = "create" /\ spc = "idle" /\ result = "err"
    /\ buf = <<"2", "5", "5", "\n">> /\ count = 4
    /\ d.brightness = 255 /\ wValue = 255

\* C18 (as claimed): once attach has failed or detach has returned, the
\* session holds no device-handle reference, and a reference taken was
\* released exactly once.
C18_DeviceHandlePut ==
    (ProbeFailed \/ dpc = "done") =>
        /\ "udev" \notin held
        /\ "udev" \in Range(acquired) => Count(released, "udev") = 1

\* C19 (as claimed): after attach and detach the framebuffer info object,
\* its pseudo-palette and its colour map have each been released exactly
\* once and none remains allocated.
C19_AuxiliaryReleased ==
    dpc = "done" =>
        \A r \in {"info", "pseudo_palette", "cmap"} :
            r \notin held /\ Count(released, r) = 1

\* C20 (as claimed): the value of the last setBrightness request equals
\* the cached brightness, and what a later read returns.
C20_SentEqualsCached ==
    wValue # -1 =>
        /\ wValue = d.brightness
        /\ shown # <<>> => SimpleStrtoul(shown[2]) = wValue

\* C10 (as claimed): the frame-memory allocation is only ever called with
\* width > 0 and height > 0.
C10_NoZeroSizedAllocation == allocTried => (d.width > 0 /\ d.height > 0)

====
